---------------------------- MODULE Spec2Model ----------------------------
(***************************************************************************)
(* Model of nveshaan/offroad_navigation:                                   *)
(*   - scripts/train.py: main, train_epoch, validate_epoch (the epoch      *)
(*     loop, the optimizer, checkpoints, console and wandb logging);       *)
(*   - models/network_utils.py: select_branch, SpatialSoftmax and          *)
(*     SpatialSoftmaxV2 (coordinate grid and forward pass).                *)
(* Three specifications share the variables: Spec (the training run),      *)
(* SpecBranch (select_branch) and SpecGrid (the spatial softmax).          *)
(***************************************************************************)
EXTENDS Integers, Sequences, FiniteSets, TLC

VARIABLES
    cfg,          \* the hydra configuration and the loaders' sizes
    pc,           \* position of main / train_epoch / validate_epoch
    epoch,        \* loop variable of main's for loop (0-based)
    batch_idx,    \* enumerate() index inside the running pass
    loss,         \* loss.item() of the batch being processed (-1: none)
    total_loss,   \* accumulator of the running pass
    train_loss,   \* value returned by train_epoch, [num, den] = num / den
    val_loss,     \* value returned by validate_epoch
    steps,        \* number of optimizer.step() calls = version of the parameters
    grads,        \* gradient buffers: "none", "zero", or the batch they come from
    mode,         \* model.train() / model.eval()
    ops,          \* operations performed on the batch being processed
    pass_losses,  \* per-batch losses of the running pass: loss value -> number of batches
    n_val,        \* validation batches processed so far in the run
    files,        \* checkpoint directory: file name -> content
    writes,       \* number of files created by torch.save
    ckpt_dir,     \* whether checkpoints/ exists
    console,      \* number of "Train Loss | Val Loss" lines printed
    wandb,        \* the wandb session: state, per-batch logs, epoch logs
    error,        \* the exception that ended the run ("" while none)
    sb,           \* select_branch: arguments, position and result
    ss            \* SpatialSoftmax / SpatialSoftmaxV2 instance and last call

trainVars == <<cfg, pc, epoch, batch_idx, loss, total_loss, train_loss, val_loss,
               steps, grads, mode, ops, pass_losses, n_val, files, writes,
               ckpt_dir, console, wandb, error>>

vars == <<cfg, pc, epoch, batch_idx, loss, total_loss, train_loss, val_loss,
          steps, grads, mode, ops, pass_losses, n_val, files, writes,
          ckpt_dir, console, wandb, error, sb, ss>>

---------------------------------------------------------------------------
(* Bounds of the model. *)

MaxEpochs == 2      \* cfg.train.epochs ranges over 0..MaxEpochs
MaxData == 4        \* len(dataset) ranges over 0..MaxData
MaxBatchSize == 2   \* cfg.data.batch_size ranges over 1..MaxBatchSize
MaxLoss == 1        \* loss.item() ranges over 0..MaxLoss
MaxClock == 1       \* the strftime("%m%d_%H%M") stamp ranges over 0..MaxClock
MaxB == 2           \* select_branch: batch size B ranges over 1..MaxB
MaxN == 3           \* select_branch: number of branches N ranges over 1..MaxN
MaxD == 2           \* select_branch: slice length D ranges over 1..MaxD
MaxDim == 3         \* spatial softmax: height and width range over 1..MaxDim

---------------------------------------------------------------------------
(* Helpers. *)

\* The losses recorded for a pass, as a bag: how many batches had each loss.
NoLosses == [l \in 0..MaxLoss |-> 0]
Record(bag, l) == [bag EXCEPT ![l] = @ + 1]

RECURSIVE BagSum(_, _)
BagSum(bag, l) == IF l < 0 THEN 0 ELSE l * bag[l] + BagSum(bag, l - 1)

RECURSIVE BagLen(_, _)
BagLen(bag, l) == IF l < 0 THEN 0 ELSE bag[l] + BagLen(bag, l - 1)

SumOf(bag) == BagSum(bag, MaxLoss)
CountOf(bag) == BagLen(bag, MaxLoss)

\* ceil(n / b): len() of a DataLoader without drop_last
CeilDiv(n, b) == (n + b - 1) \div b

NoMean == [num |-> 0, den |-> 0]


---------------------------------------------------------------------------
(* scripts/train.py: the configuration and the loaders. *)

\* The fields of cfg that main reads.  val_ratio is val_quarters / 4, a ratio
\* that binary floating point represents exactly.
Configs ==
    [epochs : 0..MaxEpochs, epoch_save : BOOLEAN, save : BOOLEAN,
     wandb_log : BOOLEAN, dataset_len : 0..MaxData, val_quarters : 0..4,
     batch_size : 1..MaxBatchSize]

\* val_size = int(len(dataset) * cfg.data.val_ratio)
ValSize(c) == (c.dataset_len * c.val_quarters) \div 4

\* train_size = len(dataset) - val_size
TrainSize(c) == c.dataset_len - ValSize(c)

\* len(train_loader), len(val_loader)
TrainBatches(c) == CeilDiv(TrainSize(c), c.batch_size)
ValBatches(c) == CeilDiv(ValSize(c), c.batch_size)

\* Number of samples of the i-th batch (0-based) of a loader over size samples.
BatchLen(size, bs, i) == IF (i + 1) * bs <= size THEN bs ELSE size - i * bs

\* total_loss / len(loader) raises ZeroDivisionError when len(loader) is 0
DivRaisesNever(n) == FALSE
DivRaises(n) == n = 0

\* total_loss / len(loader)
MeanBySamples(total, n) ==
    [num |-> total,
     den |-> IF mode = "train" THEN TrainSize(cfg) ELSE ValSize(cfg)]
Mean(total, n) == [num |-> total, den |-> n]

\* for epoch in range(cfg.train.epochs)
LoopContinuesOnceMore(e, n) == e <= n
LoopContinues(e, n) == e < n

\* f'checkpoints/{now:%m%d_%H%M}_epoch{epoch+1}.pth', f'checkpoints/{now:%m%d_%H%M}_model.pth'
FileNameNoEpoch(ts, kind, n) == [ts |-> ts, kind |-> kind, n |-> 0]
FileName(ts, kind, n) == [ts |-> ts, kind |-> kind, n |-> IF kind = "epoch" THEN n ELSE 0]

\* torch.save(model.state_dict(), name): creates or replaces the file
SaveFile(fs, name, content) ==
    [f \in DOMAIN fs \cup {name} |-> IF f = name THEN content ELSE fs[f]]

NoGrads == [state |-> "none", epoch |-> 0, batch |-> 0]

TrainInit ==
    /\ cfg \in Configs
    /\ pc = "setup"
    /\ epoch = 0
    /\ batch_idx = 0
    /\ loss = -1
    /\ total_loss = 0
    /\ train_loss = NoMean
    /\ val_loss = NoMean
    /\ steps = 0
    /\ grads = NoGrads
    /\ mode = "train"
    /\ ops = <<>>
    /\ pass_losses = NoLosses
    /\ n_val = 0
    /\ files = <<>>
    /\ writes = 0
    /\ ckpt_dir = FALSE
    /\ console = 0
    /\ wandb = [state |-> "none", batch_logs |-> <<>>, epoch_logs |-> <<>>]
    /\ error = ""

\* The training variables while another specification runs.
TrainIdle ==
    /\ cfg = [epochs |-> 0, epoch_save |-> FALSE, save |-> FALSE, wandb_log |-> FALSE,
              dataset_len |-> 0, val_quarters |-> 0, batch_size |-> 1]
    /\ pc = "idle"
    /\ epoch = 0
    /\ batch_idx = 0
    /\ loss = -1
    /\ total_loss = 0
    /\ train_loss = NoMean
    /\ val_loss = NoMean
    /\ steps = 0
    /\ grads = NoGrads
    /\ mode = "train"
    /\ ops = <<>>
    /\ pass_losses = NoLosses
    /\ n_val = 0
    /\ files = <<>>
    /\ writes = 0
    /\ ckpt_dir = FALSE
    /\ console = 0
    /\ wandb = [state |-> "none", batch_logs |-> <<>>, epoch_logs |-> <<>>]
    /\ error = ""

\* An uncaught exception ends the process: nothing in main catches it.
Abort(e) ==
    /\ pc' = "aborted"
    /\ error' = e

---------------------------------------------------------------------------
(* main, lines 70-101: seed, wandb.init, dataset, split, loaders, model, optimizer. *)

\* RandomSampler (shuffle=True) over an empty training split: the installed
\* torch either rejects num_samples=0 with a ValueError or builds an empty
\* loader, depending on its version.
Setup ==
    /\ pc = "setup"
    /\ \/ /\ pc' = "loop"
          /\ error' = error
       \/ /\ TrainSize(cfg) = 0
          /\ Abort("ValueError")
    /\ wandb' = IF cfg.wandb_log THEN [wandb EXCEPT !.state = "open"] ELSE wandb
    /\ UNCHANGED <<cfg, epoch, batch_idx, loss, total_loss, train_loss, val_loss, steps,
                   grads, mode, ops, pass_losses, n_val, files, writes, ckpt_dir,
                   console, sb, ss>>

(* main, lines 103-105, and train_epoch, lines 28-29.  train_loss and val_loss
   of the previous iteration are assigned again (lines 105-106) before they are
   next read (lines 108, 116-120): the model forgets them here. *)
EpochBegin ==
    /\ pc = "loop"
    /\ LoopContinues(epoch, cfg.epochs)
    /\ mode' = "train"
    /\ total_loss' = 0
    /\ batch_idx' = 0
    /\ pass_losses' = NoLosses
    /\ train_loss' = NoMean
    /\ val_loss' = NoMean
    /\ pc' = "train"
    /\ UNCHANGED <<cfg, epoch, loss, steps, grads, ops, n_val,
                   files, writes, ckpt_dir, console, wandb, error, sb, ss>>

(* train_epoch, lines 32-37: next batch, forward pass and loss. *)
Forward ==
    /\ pc = "train"
    /\ batch_idx < TrainBatches(cfg)
    /\ \E l \in 0..MaxLoss : loss' = l
    /\ ops' = <<"forward", "loss">>
    /\ pc' = "zero_grad"
    /\ UNCHANGED <<cfg, epoch, batch_idx, total_loss, train_loss, val_loss, steps, grads,
                   mode, pass_losses, n_val, files, writes, ckpt_dir, console, wandb,
                   error, sb, ss>>

(* train_epoch, line 39: optimizer.zero_grad(). *)
ZeroGrad ==
    /\ pc = "zero_grad"
    /\ grads' = [state |-> "zero", epoch |-> 0, batch |-> 0]
    /\ ops' = Append(ops, "zero_grad")
    /\ pc' = "backward"
    /\ UNCHANGED <<cfg, epoch, batch_idx, loss, total_loss, train_loss, val_loss, steps,
                   mode, pass_losses, n_val, files, writes, ckpt_dir, console, wandb,
                   error, sb, ss>>

(* train_epoch, line 40: loss.backward(). *)
Backward ==
    /\ pc = "backward"
    /\ grads' = [state |-> "fresh", epoch |-> epoch, batch |-> batch_idx]
    /\ ops' = Append(ops, "backward")
    /\ pc' = "step"
    /\ UNCHANGED <<cfg, epoch, batch_idx, loss, total_loss, train_loss, val_loss, steps,
                   mode, pass_losses, n_val, files, writes, ckpt_dir, console, wandb,
                   error, sb, ss>>

(* train_epoch, line 41: optimizer.step(). *)
OptimizerStep ==
    /\ pc = "step"
    /\ steps' = steps + 1
    /\ ops' = Append(ops, "step")
    /\ pc' = "accumulate"
    /\ UNCHANGED <<cfg, epoch, batch_idx, loss, total_loss, train_loss, val_loss, grads,
                   mode, pass_losses, n_val, files, writes, ckpt_dir, console, wandb,
                   error, sb, ss>>

(* train_epoch, lines 43-47: accumulate, progress bar, per-batch wandb.log. *)
Accumulate ==
    /\ pc = "accumulate"
    /\ total_loss' = total_loss + loss
    /\ pass_losses' = Record(pass_losses, loss)
    /\ wandb' = IF cfg.wandb_log
                THEN [wandb EXCEPT !.batch_logs =
                         Append(@, epoch * TrainBatches(cfg) + batch_idx)]
                ELSE wandb
    /\ batch_idx' = batch_idx + 1
    /\ loss' = -1
    /\ pc' = "train"
    /\ UNCHANGED <<cfg, epoch, train_loss, val_loss, steps, grads, mode, ops, n_val,
                   files, writes, ckpt_dir, console, error, sb, ss>>

(* train_epoch, line 49: return total_loss / len(loader). *)
TrainReturn ==
    /\ pc = "train"
    /\ batch_idx = TrainBatches(cfg)
    /\ IF DivRaises(TrainBatches(cfg))
       THEN /\ Abort("ZeroDivisionError")
            /\ UNCHANGED train_loss
       ELSE /\ train_loss' = Mean(total_loss, TrainBatches(cfg))
            /\ pc' = "validate"
            /\ error' = error
    /\ UNCHANGED <<cfg, epoch, batch_idx, loss, total_loss, val_loss, steps, grads, mode,
                   ops, pass_losses, n_val, files, writes, ckpt_dir, console, wandb,
                   sb, ss>>

(* main, line 106, and validate_epoch, lines 52-53. *)
ValidateBegin ==
    /\ pc = "validate"
    /\ mode' = "eval"
    /\ total_loss' = 0
    /\ batch_idx' = 0
    /\ pass_losses' = NoLosses
    /\ pc' = "val"
    /\ UNCHANGED <<cfg, epoch, loss, train_loss, val_loss, steps, grads, ops, n_val,
                   files, writes, ckpt_dir, console, wandb, error, sb, ss>>

(* validate_epoch, lines 57-64: one batch under inference_mode. *)
ValBatchStepping ==
    /\ pc = "val"
    /\ batch_idx < ValBatches(cfg)
    /\ \E l \in 0..MaxLoss :
          /\ total_loss' = total_loss + l
          /\ pass_losses' = Record(pass_losses, l)
    /\ ops' = <<"forward", "loss", "step">>
    /\ steps' = steps + 1
    /\ n_val' = n_val + 1
    /\ batch_idx' = batch_idx + 1
    /\ UNCHANGED <<cfg, pc, epoch, loss, train_loss, val_loss, grads, mode, files,
                   writes, ckpt_dir, console, wandb, error, sb, ss>>

ValBatch ==
    /\ pc = "val"
    /\ batch_idx < ValBatches(cfg)
    /\ \E l \in 0..MaxLoss :
          /\ total_loss' = total_loss + l
          /\ pass_losses' = Record(pass_losses, l)
    /\ ops' = <<"forward", "loss">>
    /\ n_val' = n_val + 1
    /\ batch_idx' = batch_idx + 1
    /\ UNCHANGED <<cfg, pc, epoch, loss, train_loss, val_loss, steps, grads, mode, files,
                   writes, ckpt_dir, console, wandb, error, sb, ss>>

\* main, lines 106-108: what follows the return of validate_epoch
AfterValidateSkipsReport == "epoch_save"
AfterValidate == "report"

(* validate_epoch, line 66: return total_loss / len(loader). *)
ValReturn ==
    /\ pc = "val"
    /\ batch_idx = ValBatches(cfg)
    /\ IF DivRaises(ValBatches(cfg))
       THEN /\ Abort("ZeroDivisionError")
            /\ UNCHANGED val_loss
       ELSE /\ val_loss' = Mean(total_loss, ValBatches(cfg))
            /\ pc' = AfterValidate
            /\ error' = error
    /\ UNCHANGED <<cfg, epoch, batch_idx, loss, total_loss, train_loss, steps, grads,
                   mode, ops, pass_losses, n_val, files, writes, ckpt_dir, console,
                   wandb, sb, ss>>

(* main, line 108: print the epoch's train and validation loss.  Both passes
   are over: the record of their batches is dropped. *)
Report ==
    /\ pc = "report"
    /\ console' = console + 1
    /\ pass_losses' = NoLosses
    /\ pc' = "epoch_save"
    /\ UNCHANGED <<cfg, epoch, batch_idx, loss, total_loss, train_loss, val_loss, steps,
                   grads, mode, ops, n_val, files, writes, ckpt_dir, wandb,
                   error, sb, ss>>

\* torch.save of the parameters under name: a new file, or a replaced one
Persist(name) ==
    /\ ckpt_dir' = TRUE
    /\ files' = SaveFile(files, name, [steps |-> steps, complete |-> TRUE])
    /\ writes' = writes + 1

(* main, lines 110-113: the per-epoch checkpoint. *)
EpochSave ==
    /\ pc = "epoch_save"
    /\ cfg.epoch_save
    /\ \E ts \in 0..MaxClock : Persist(FileName(ts, "epoch", epoch + 1))
    /\ pc' = "epoch_log"
    /\ UNCHANGED <<cfg, epoch, batch_idx, loss, total_loss, train_loss, val_loss, steps,
                   grads, mode, ops, pass_losses, n_val, console, wandb, error, sb, ss>>

SkipEpochSave ==
    /\ pc = "epoch_save"
    /\ ~cfg.epoch_save
    /\ pc' = "epoch_log"
    /\ UNCHANGED <<cfg, epoch, batch_idx, loss, total_loss, train_loss, val_loss, steps,
                   grads, mode, ops, pass_losses, n_val, files, writes, ckpt_dir,
                   console, wandb, error, sb, ss>>

(* main, lines 115-120: the epoch-level wandb.log, then the next iteration. *)
EpochLog ==
    /\ pc = "epoch_log"
    /\ wandb' = IF cfg.wandb_log
                THEN [wandb EXCEPT !.epoch_logs = Append(@, epoch + 1)]
                ELSE wandb
    /\ epoch' = epoch + 1
    /\ pc' = "loop"
    /\ UNCHANGED <<cfg, batch_idx, loss, total_loss, train_loss, val_loss, steps, grads,
                   mode, ops, pass_losses, n_val, files, writes, ckpt_dir, console,
                   error, sb, ss>>

(* main, lines 103 and 122: the loop is exhausted, "Training complete." *)
LoopExit ==
    /\ pc = "loop"
    /\ ~LoopContinues(epoch, cfg.epochs)
    /\ pc' = "final_save"
    /\ UNCHANGED <<cfg, epoch, batch_idx, loss, total_loss, train_loss, val_loss, steps,
                   grads, mode, ops, pass_losses, n_val, files, writes, ckpt_dir,
                   console, wandb, error, sb, ss>>

(* main, lines 124-127: the final checkpoint. *)
FinalSave ==
    /\ pc = "final_save"
    /\ cfg.save
    /\ \E ts \in 0..MaxClock : Persist(FileName(ts, "model", 0))
    /\ pc' = "finish"
    /\ UNCHANGED <<cfg, epoch, batch_idx, loss, total_loss, train_loss, val_loss, steps,
                   grads, mode, ops, pass_losses, n_val, console, wandb, error, sb, ss>>

SkipFinalSave ==
    /\ pc = "final_save"
    /\ ~cfg.save
    /\ pc' = "finish"
    /\ UNCHANGED <<cfg, epoch, batch_idx, loss, total_loss, train_loss, val_loss, steps,
                   grads, mode, ops, pass_losses, n_val, files, writes, ckpt_dir,
                   console, wandb, error, sb, ss>>

(* main, lines 129-130: wandb.finish(), then main returns. *)
Finish ==
    /\ pc = "finish"
    /\ wandb' = IF cfg.wandb_log THEN [wandb EXCEPT !.state = "finished"] ELSE wandb
    /\ pc' = "done"
    /\ UNCHANGED <<cfg, epoch, batch_idx, loss, total_loss, train_loss, val_loss, steps,
                   grads, mode, ops, pass_losses, n_val, files, writes, ckpt_dir,
                   console, error, sb, ss>>

Running == pc \notin {"idle", "done", "aborted"}

\* A try/except around the failing call that lets the run go on.
FailSwallowed ==
    /\ Running
    /\ error' = "Exception"
    /\ UNCHANGED <<cfg, pc, epoch, batch_idx, loss, total_loss, train_loss, val_loss,
                   steps, grads, mode, ops, pass_losses, n_val, files, writes, ckpt_dir,
                   console, wandb, sb, ss>>

(* main, train_epoch, validate_epoch: a call of the statement at pc (a batch
   computation, a wandb call, print, makedirs) raises; no handler exists. *)
Fail ==
    /\ Running
    /\ Abort("Exception")
    /\ UNCHANGED <<cfg, epoch, batch_idx, loss, total_loss, train_loss, val_loss,
                   steps, grads, mode, ops, pass_losses, n_val, files, writes, ckpt_dir,
                   console, wandb, sb, ss>>

(* main, lines 111-112 and 125-126: os.makedirs succeeded and torch.save
   raises, either before it created the file (the directory exists and nothing
   else changed) or after it opened it (an incomplete file is left behind).  A
   failure of os.makedirs itself is Fail. *)
FailSave ==
    /\ \/ pc = "epoch_save" /\ cfg.epoch_save
       \/ pc = "final_save" /\ cfg.save
    /\ ckpt_dir' = TRUE
    /\ \/ UNCHANGED <<files, writes>>
       \/ /\ \E ts \in 0..MaxClock :
                LET name == IF pc = "epoch_save" THEN FileName(ts, "epoch", epoch + 1)
                            ELSE FileName(ts, "model", 0)
                IN  files' = SaveFile(files, name, [steps |-> steps, complete |-> FALSE])
          /\ writes' = writes + 1
    /\ Abort("Exception")
    /\ UNCHANGED <<cfg, epoch, batch_idx, loss, total_loss, train_loss, val_loss,
                   steps, grads, mode, ops, pass_losses, n_val, console, wandb, sb, ss>>

\* The steps of the program itself, failures aside.
ProgramStep ==
    \/ Setup \/ EpochBegin \/ Forward \/ ZeroGrad \/ Backward \/ OptimizerStep
    \/ Accumulate \/ TrainReturn \/ ValidateBegin \/ ValBatch \/ ValReturn \/ Report
    \/ EpochSave \/ SkipEpochSave \/ EpochLog \/ LoopExit \/ FinalSave
    \/ SkipFinalSave \/ Finish

Next == ProgramStep \/ Fail \/ FailSave

SbIdle == [pc |-> "idle"]
SsIdle == [pc |-> "idle"]

Init == TrainInit /\ sb = SbIdle /\ ss = SsIdle

Spec == Init /\ [][Next]_vars

---------------------------------------------------------------------------
(* models/network_utils.py: select_branch. *)

\* The branches tensor of shape (B, N, D); its entries are pairwise distinct,
\* so that a slice identifies the sample and the branch it was taken from.
BranchTensor(B, N, D) ==
    [i \in 0..(B - 1) |-> [n \in 0..(N - 1) |-> [d \in 0..(D - 1) |-> (i * N + n) * D + d]]]

\* Command entries are given in halves (c stands for c / 2), so that float
\* commands with a fractional part are among the inputs.
CommandValues == (0 - 2 * (MaxN + 1))..(2 * (MaxN + 1))

\* command.long(): conversion to int64 truncates toward zero
Long(c) == IF c >= 0 THEN c \div 2 ELSE 0 - ((0 - c) \div 2)

\* Indexing dimension of size N with an index tensor: entries in [-N, N) are
\* accepted and negative ones count from the end; any other entry is an IndexError.
IndexInBoundsNonNegative(n, N) == 0 <= n /\ n < N
IndexInBounds(n, N) == (0 - N) <= n /\ n < N
WrapIndex(n, N) == IF n < 0 THEN n + N ELSE n

\* branches[torch.arange(branches.size(0)), command]
SelectBranchOfFirst(branches, index) ==
    LET B == Cardinality(DOMAIN branches)
        N == Cardinality(DOMAIN branches[0])
    IN  IF \E i \in 0..(B - 1) : ~IndexInBounds(index[i], N)
        THEN [error |-> "IndexError", value |-> <<>>]
        ELSE [error |-> "",
              value |-> [i \in 0..(B - 1) |-> branches[i][WrapIndex(index[0], N)]]]
SelectBranch(branches, index) ==
    LET B == Cardinality(DOMAIN branches)
        N == Cardinality(DOMAIN branches[0])
    IN  IF \E i \in 0..(B - 1) : ~IndexInBounds(index[i], N)
        THEN [error |-> "IndexError", value |-> <<>>]
        ELSE [error |-> "",
              value |-> [i \in 0..(B - 1) |-> branches[i][WrapIndex(index[i], N)]]]

BranchInit ==
    \E B \in 1..MaxB, N \in 1..MaxN, D \in 1..MaxD :
       \E c \in [0..(B - 1) -> CommandValues] :
          sb = [pc |-> "entry", B |-> B, N |-> N, D |-> D,
                branches |-> BranchTensor(B, N, D), command |-> c,
                index |-> <<>>, result |-> [error |-> "", value |-> <<>>]]

(* select_branch, line 23: command = command.long(). *)
CommandLong ==
    /\ sb.pc = "entry"
    /\ sb' = [sb EXCEPT !.pc = "index",
                        !.index = [i \in 0..(sb.B - 1) |-> Long(sb.command[i])]]
    /\ UNCHANGED <<trainVars, ss>>

(* select_branch, line 24: the indexing and the return. *)
BranchIndex ==
    /\ sb.pc = "index"
    /\ sb' = [sb EXCEPT !.pc = "returned",
                        !.result = SelectBranch(sb.branches, sb.index)]
    /\ UNCHANGED <<trainVars, ss>>

NextBranch == CommandLong \/ BranchIndex

InitBranch == TrainIdle /\ ss = SsIdle /\ BranchInit

SpecBranch == InitBranch /\ [][NextBranch]_vars

---------------------------------------------------------------------------
(* models/network_utils.py: SpatialSoftmax and SpatialSoftmaxV2. *)

RECURSIVE GCD(_, _)
GCD(a, b) == IF b = 0 THEN a ELSE GCD(b, a % b)

Abs(a) == IF a < 0 THEN 0 - a ELSE a

\* The rational n / d in lowest terms, d > 0.
Rat(n, d) ==
    LET g == GCD(Abs(n), Abs(d))
        sgn == IF d < 0 THEN 0 - 1 ELSE 1
    IN  [n |-> sgn * (n \div g), d |-> sgn * (d \div g)]

RatAdd(p, q) == Rat(p.n * q.d + q.n * p.d, p.d * q.d)
RatMul(p, q) == Rat(p.n * q.n, p.d * q.d)
RatInt(k) == [n |-> k, d |-> 1]

\* np.linspace(-1., 1., num)[i]
Linspace(num, i) == IF num = 1 THEN RatInt(0 - 1) ELSE Rat(2 * i - (num - 1), num - 1)

\* np.meshgrid(xs, ys) with the default indexing='xy' returns two arrays of
\* shape (len(ys), len(xs)); reshape(-1) flattens them row by row.  Here
\* xs = linspace(-1, 1, height) and ys = linspace(-1, 1, width).
PosX(height, width) ==
    [k \in 0..(height * width - 1) |-> Linspace(height, k % height)]
PosY(height, width) ==
    [k \in 0..(height * width - 1) |-> Linspace(width, k \div height)]

\* feature.view(N * C, H * W): position (h, w) of a feature map becomes index h * W + w
FlatIndex(h, w, W) == h * W + w

\* softmax output concentrated on the single position (h, w), after the view
OneHot(h, w, H, W) == [k \in 0..(H * W - 1) |-> IF k = FlatIndex(h, w, W) THEN 1 ELSE 0]

\* torch.sum(pos * weight, dim=1)
RECURSIVE WeightedSum(_, _, _)
WeightedSum(pos, weight, k) ==
    IF k < 0 THEN RatInt(0)
    ELSE RatAdd(WeightedSum(pos, weight, k - 1), RatMul(pos[k], RatInt(weight[k])))

\* ((expected + 1) / 2) * (max - min) + min
ToRange(e, range) ==
    RatAdd(RatMul(RatMul(RatAdd(e, RatInt(1)), Rat(1, 2)), RatInt(range[2] - range[1])),
           RatInt(range[1]))

\* x_range, y_range: the default and the docstring's examples
XRanges == {<<0, 20>>, <<0, 5>>}
YRanges == {<<0 - 1, 1>>, <<0 - 2, 2>>}

GridInit ==
    \E H \in 1..MaxDim, W \in 1..MaxDim :
       \/ ss = [pc |-> "new", variant |-> "SpatialSoftmax", height |-> H, width |-> W,
                x_range |-> <<0 - 1, 1>>, y_range |-> <<0 - 1, 1>>,
                pos_x |-> <<>>, pos_y |-> <<>>, h |-> 0, w |-> 0,
                out |-> <<RatInt(0), RatInt(0)>>]
       \/ \E xr \in XRanges, yr \in YRanges :
             ss = [pc |-> "new", variant |-> "SpatialSoftmaxV2", height |-> H, width |-> W,
                   x_range |-> xr, y_range |-> yr,
                   pos_x |-> <<>>, pos_y |-> <<>>, h |-> 0, w |-> 0,
                   out |-> <<RatInt(0), RatInt(0)>>]

(* SpatialSoftmax.__init__, lines 93-108; SpatialSoftmaxV2.__init__, lines 146-164. *)
Construct ==
    /\ ss.pc = "new"
    /\ ss' = [ss EXCEPT !.pc = "ready",
                        !.pos_x = PosX(ss.height, ss.width),
                        !.pos_y = PosY(ss.height, ss.width)]
    /\ UNCHANGED <<trainVars, sb>>

(* SpatialSoftmax.forward, lines 110-121; SpatialSoftmaxV2.forward, lines
   166-188, on a feature map of the constructed size whose attention is
   concentrated on position (h, w). *)
ForwardSoftmax ==
    /\ ss.pc = "ready"
    /\ \E h \in 0..(ss.height - 1), w \in 0..(ss.width - 1) :
          LET weight == OneHot(h, w, ss.height, ss.width)
              last == ss.height * ss.width - 1
              expected_x == WeightedSum(ss.pos_x, weight, last)
              expected_y == WeightedSum(ss.pos_y, weight, last)
          IN  ss' = [ss EXCEPT !.pc = "called", !.h = h, !.w = w,
                        !.out = IF ss.variant = "SpatialSoftmaxV2"
                                THEN <<ToRange(expected_x, ss.x_range),
                                       ToRange(expected_y, ss.y_range)>>
                                ELSE <<expected_x, expected_y>>]
    /\ UNCHANGED <<trainVars, sb>>

NextGrid == Construct \/ ForwardSoftmax

InitGrid == TrainIdle /\ sb = SbIdle /\ GridInit

SpecGrid == InitGrid /\ [][NextGrid]_vars

---------------------------------------------------------------------------
(* Properties of select_branch, checked under SpecBranch. *)

SbSamples == 0..(sb.B - 1)

\* The command entries are integers in [0, N).
ValidCommand ==
    \A i \in SbSamples : sb.command[i] % 2 = 0 /\ 0 <= sb.command[i] /\ sb.command[i] < 2 * sb.N

\* C1: for a branches tensor of shape (B, N, D) and a command vector of B
\* integers in [0, N), select_branch returns one slice per sample and
\* result[i] equals branches[i, c[i]] elementwise for every sample i.
C1_SelectBranchGathers ==
    (sb.pc = "returned" /\ ValidCommand) =>
        /\ sb.result.error = ""
        /\ DOMAIN sb.result.value = SbSamples
        /\ \A i \in SbSamples :
              /\ DOMAIN sb.result.value[i] = 0..(sb.D - 1)
              /\ \A d \in 0..(sb.D - 1) :
                    sb.result.value[i][d] = sb.branches[i][sb.command[i] \div 2][d]

\* Two samples with different valid commands, both slices of length two.
C1_Witness ==
    /\ sb.pc = "returned"
    /\ ValidCommand
    /\ sb.B = 2 /\ sb.N = 3 /\ sb.D = 2
    /\ sb.command[0] = 4 /\ sb.command[1] = 2
    /\ sb.result.value[0] = sb.branches[0][2]
    /\ sb.result.value[1] = sb.branches[1][1]

\* C2 as stated: whenever an entry of the command vector lies outside [0, N),
\* negative values such as -1 included, the call signals an indexing error.
\* (Stated here for integer entries only.)
C2_OutOfRangeAlwaysRaises ==
    (/\ sb.pc = "returned"
     /\ \A i \in SbSamples : sb.command[i] % 2 = 0
     /\ \E i \in SbSamples : sb.command[i] < 0 \/ sb.command[i] >= 2 * sb.N)
        => sb.result.error = "IndexError"

\* C2, amended: the call signals an IndexError and returns nothing exactly when
\* some entry, truncated toward zero, lies outside [-N, N), that is when an
\* entry is >= N or <= -N-1; an entry in [-N, -1] is no error, it counts from
\* the end and selects branch N + c (-1 selects the last branch).
C2_IndexErrorOutsideWrapRange ==
    sb.pc = "returned" =>
        /\ sb.result.error = "IndexError" <=>
              \E i \in SbSamples :
                 sb.command[i] >= 2 * sb.N \/ sb.command[i] <= 0 - 2 * (sb.N + 1)
        /\ sb.result.error = "IndexError" => sb.result.value = <<>>
        /\ sb.result.error = "" =>
              \A i \in SbSamples :
                 (sb.command[i] % 2 = 0 /\ sb.command[i] < 0) =>
                     sb.result.value[i] = sb.branches[i][sb.N + sb.command[i] \div 2]

\* One sample in range, the other at N: the call fails as a whole.
C2_Witness ==
    /\ sb.pc = "returned"
    /\ sb.B = 2 /\ sb.N = 2
    /\ sb.command[0] = 0 /\ sb.command[1] = 4
    /\ sb.result.error = "IndexError"
    /\ sb.result.value = <<>>

---------------------------------------------------------------------------
(* Properties of the training run, checked under Spec. *)

T == TrainBatches(cfg)
V == ValBatches(cfg)

TrainPcs == {"train", "zero_grad", "backward", "step", "accumulate"}
AfterPassesPcs == {"report", "epoch_save", "epoch_log"}
FinalPcs == {"final_save", "finish", "done"}

\* Epoch numbers of the checkpoint files, all of them and the complete ones.
EpochFiles == {f \in DOMAIN files : f.kind = "epoch"}
ModelFiles == {f \in DOMAIN files : f.kind = "model"}
EpochCkpts == {f.n : f \in EpochFiles}
CompleteEpochCkpts == {f.n : f \in {g \in EpochFiles : files[g].complete}}

\* C3: a run configured with E epochs that ends normally has executed exactly
\* E epochs; in every epoch all training batches are processed before the first
\* validation batch, all validation batches before the epoch ends, and no batch
\* of the next epoch before the validation pass has finished; a run that has
\* not ended can take its next step.
C3_RunOrdering ==
    /\ epoch <= cfg.epochs
    /\ pc \in TrainPcs =>
          /\ epoch < cfg.epochs
          /\ steps = epoch * T + batch_idx + (IF pc = "accumulate" THEN 1 ELSE 0)
          /\ batch_idx <= T
          /\ n_val = epoch * V
    /\ pc \in {"validate", "val"} =>
          /\ epoch < cfg.epochs
          /\ steps = (epoch + 1) * T
          /\ n_val = epoch * V + (IF pc = "val" THEN batch_idx ELSE 0)
    /\ pc \in AfterPassesPcs =>
          /\ epoch < cfg.epochs
          /\ steps = (epoch + 1) * T
          /\ n_val = (epoch + 1) * V
    /\ pc \in {"loop"} \cup FinalPcs =>
          /\ steps = epoch * T
          /\ n_val = epoch * V
    /\ pc \in FinalPcs => epoch = cfg.epochs
    /\ pc = "done" => error = ""
    /\ Running => ENABLED ProgramStep

\* A two-epoch run over two training and one validation batch has ended.
C3_Witness ==
    /\ pc = "done"
    /\ cfg.epochs = 2 /\ T = 2 /\ V = 1
    /\ epoch = 2 /\ steps = 4 /\ n_val = 2

\* C4: for every training batch the loop performs forward/loss, zero_grad,
\* backward and exactly one optimizer step, in this order, the step using the
\* gradients of that batch; validation never steps the optimizer; after a
\* completed run of E epochs over T training batches there were E * T steps.
C4_ParameterUpdates ==
    /\ pc = "train" => steps = epoch * T + batch_idx
    /\ pc = "zero_grad" =>
          ops = <<"forward", "loss">> /\ steps = epoch * T + batch_idx
    /\ pc = "backward" =>
          /\ ops = <<"forward", "loss", "zero_grad">>
          /\ grads.state = "zero"
          /\ steps = epoch * T + batch_idx
    /\ pc = "step" =>
          /\ ops = <<"forward", "loss", "zero_grad", "backward">>
          /\ grads = [state |-> "fresh", epoch |-> epoch, batch |-> batch_idx]
          /\ steps = epoch * T + batch_idx
    /\ pc = "accumulate" =>
          /\ ops = <<"forward", "loss", "zero_grad", "backward", "step">>
          /\ grads = [state |-> "fresh", epoch |-> epoch, batch |-> batch_idx]
          /\ steps = epoch * T + batch_idx + 1
    /\ pc \in {"validate", "val"} \cup AfterPassesPcs => steps = (epoch + 1) * T
    /\ (pc = "val" /\ batch_idx > 0) => ops = <<"forward", "loss">>
    /\ mode = "eval" => pc \notin TrainPcs \ {"train"}
    /\ pc = "done" => steps = cfg.epochs * T

\* The second epoch's validation pass is under way after two batches of two
\* training batches each.
C4_Witness ==
    /\ pc = "val"
    /\ epoch = 1 /\ T = 2 /\ V = 2
    /\ batch_idx = 1
    /\ n_val = 3
    /\ steps = 4
    /\ ops = <<"forward", "loss">>

\* C5: train_epoch and validate_epoch return the sum of the pass's per-batch
\* losses divided by the number of batches of the loader (not of samples); the
\* accumulator starts at 0 in every pass, so it holds the losses of the running
\* pass only.
C5_EpochLoss ==
    /\ pc \in TrainPcs \cup {"val"} =>
          /\ total_loss = SumOf(pass_losses)
          /\ CountOf(pass_losses) = batch_idx
    /\ pc = "validate" =>
          /\ CountOf(pass_losses) = T
          /\ train_loss = [num |-> SumOf(pass_losses), den |-> CeilDiv(TrainSize(cfg), cfg.batch_size)]
    /\ pc = "report" =>
          /\ CountOf(pass_losses) = V
          /\ val_loss = [num |-> SumOf(pass_losses), den |-> CeilDiv(ValSize(cfg), cfg.batch_size)]

\* Second epoch, three training samples in batches of two: the one-sample
\* batch weighs as much as the full one, and the first epoch's losses are gone.
C5_Witness ==
    /\ pc = "validate"
    /\ epoch = 1
    /\ TrainSize(cfg) = 3 /\ cfg.batch_size = 2
    /\ BatchLen(3, 2, 1) = 1
    /\ pass_losses = [l \in 0..MaxLoss |-> IF l <= 1 THEN 1 ELSE 0]
    /\ train_loss = [num |-> 1, den |-> 2]

\* C6: in a completed run of E epochs there is exactly one checkpoint per epoch,
\* numbered 1..E, if per-epoch saving is enabled and none otherwise, and one
\* _model checkpoint if final saving is enabled, written after the last epoch
\* and before the logging session is closed; no write replaces a file written
\* earlier in the run.
C6_CheckpointPolicy ==
    /\ Cardinality(DOMAIN files) = writes
    /\ \A f \in EpochFiles : files[f].steps = f.n * T
    /\ pc = "done" =>
          /\ EpochCkpts = (IF cfg.epoch_save THEN 1..cfg.epochs ELSE {})
          /\ Cardinality(EpochFiles) = (IF cfg.epoch_save THEN cfg.epochs ELSE 0)
          /\ Cardinality(ModelFiles) = (IF cfg.save THEN 1 ELSE 0)
          /\ \A f \in DOMAIN files : files[f].complete
    /\ ModelFiles # {} =>
          /\ cfg.save
          /\ epoch = cfg.epochs
          /\ steps = cfg.epochs * T
          /\ \A f \in ModelFiles : files[f].steps = steps
          /\ cfg.epoch_save => CompleteEpochCkpts = 1..cfg.epochs
    /\ (wandb.state = "finished" /\ cfg.save) => ModelFiles # {}
    /\ pc = "finish" => wandb.state # "finished"

\* Both epochs' checkpoints and the final one carry the same time stamp.
C6_Witness ==
    /\ pc = "done"
    /\ cfg.epochs = 2 /\ cfg.epoch_save /\ cfg.save /\ cfg.wandb_log
    /\ DOMAIN files = {FileName(0, "epoch", 1), FileName(0, "epoch", 2), FileName(0, "model", 0)}
    /\ wandb.state = "finished"

\* C7 as stated: after a failure the checkpoints that exist are exactly those
\* of the epochs completed before the failure.
C7_CheckpointsExactlyCompletedEpochs ==
    (pc = "aborted" /\ cfg.epoch_save) => CompleteEpochCkpts = 1..epoch

\* C7, amended: a failure is never retried and aborts the run, after which no
\* batch is processed, no optimizer step is taken and no checkpoint is written.
\* With per-epoch saving the complete checkpoints are those of every epoch whose
\* loop iteration finished before the failure, plus that of the epoch in flight
\* when the failure comes after its checkpoint write (the epoch-level wandb.log
\* follows the write); without per-epoch saving there is none.
C7_FailureAborts ==
    /\ error # "" => pc = "aborted"
    /\ pc = "aborted" =>
          /\ error # ""
          /\ ~ENABLED Next
          /\ CompleteEpochCkpts \subseteq 1..(epoch + 1)
          /\ cfg.epoch_save => (1..epoch) \subseteq CompleteEpochCkpts
          /\ ~cfg.epoch_save => CompleteEpochCkpts = {}
          /\ (epoch + 1) \in CompleteEpochCkpts =>
                /\ steps = (epoch + 1) * T
                /\ n_val = (epoch + 1) * V
                /\ console = epoch + 1

\* A batch of the second epoch fails: the first epoch's checkpoint is all there is.
C7_Witness ==
    /\ pc = "aborted"
    /\ error = "Exception"
    /\ cfg.epoch_save
    /\ epoch = 1 /\ T = 2
    /\ steps = 3
    /\ CompleteEpochCkpts = {1}

\* C8 as stated: a checkpoint for epoch N exists only if epoch N's losses have
\* been printed and, when experiment logging is enabled, sent to wandb.
C8_LoggedBeforeCheckpoint ==
    \A n \in EpochCkpts :
       /\ console >= n
       /\ cfg.wandb_log => Len(wandb.epoch_logs) >= n

\* C8, amended: the console report of an epoch precedes that epoch's
\* checkpoint, and the epoch-level wandb.log follows it: a checkpoint for epoch
\* N exists only if epoch N's losses have been printed, and epoch N's metrics
\* are in wandb only if they have been printed and, with per-epoch saving, the
\* checkpoint for epoch N exists.
C8_PrintedBeforeCheckpointBeforeWandb ==
    /\ \A n \in EpochCkpts : console >= n
    /\ \A i \in 1..Len(wandb.epoch_logs) :
          /\ wandb.epoch_logs[i] = i
          /\ console >= i
          /\ cfg.epoch_save => i \in CompleteEpochCkpts
    /\ Len(wandb.epoch_logs) <= epoch

\* The second epoch's checkpoint is written and its metrics are not yet logged.
C8_Witness ==
    /\ pc = "epoch_log"
    /\ cfg.epoch_save /\ cfg.wandb_log
    /\ epoch = 1
    /\ CompleteEpochCkpts = {1, 2}
    /\ console = 2
    /\ wandb.epoch_logs = <<1>>

\* C10: with an empty validation split and at least one epoch, the run reports
\* no epoch loss and writes no checkpoint; validate_epoch of the first epoch
\* raises ZeroDivisionError after all optimizer steps of the first training
\* pass; train_epoch raises it likewise when the training loader is empty.
C10_EmptyLoaderDivision ==
    /\ (V = 0 /\ cfg.epochs >= 1) =>
          /\ epoch = 0
          /\ console = 0
          /\ files = <<>>
          /\ wandb.epoch_logs = <<>>
          /\ pc \notin AfterPassesPcs \cup FinalPcs
    /\ (pc = "val" /\ V = 0) =>
          /\ steps = T
          /\ ENABLED ValReturn
          /\ ~ENABLED (ProgramStep /\ pc' # "aborted")
    /\ (pc = "train" /\ T = 0) =>
          /\ ENABLED TrainReturn
          /\ ~ENABLED (ProgramStep /\ pc' # "aborted")
    /\ error = "ZeroDivisionError" =>
          /\ pc = "aborted"
          /\ epoch = 0
          /\ \/ mode = "train" /\ T = 0 /\ steps = 0
             \/ mode = "eval" /\ V = 0 /\ T > 0 /\ steps = T

\* Two training batches were applied, then validate_epoch divided by zero.
C10_Witness ==
    /\ pc = "aborted"
    /\ error = "ZeroDivisionError"
    /\ mode = "eval"
    /\ V = 0 /\ T = 2
    /\ steps = 2
    /\ files = <<>> /\ console = 0

---------------------------------------------------------------------------
(* Properties of the spatial softmax, checked under SpecGrid. *)

\* p takes one value per row / one value per column of the feature map
RowOnly(p) ==
    \A h \in 0..(ss.height - 1), w1 \in 0..(ss.width - 1), w2 \in 0..(ss.width - 1) :
       p[FlatIndex(h, w1, ss.width)] = p[FlatIndex(h, w2, ss.width)]
ColumnOnly(p) ==
    \A w \in 0..(ss.width - 1), h1 \in 0..(ss.height - 1), h2 \in 0..(ss.height - 1) :
       p[FlatIndex(h1, w, ss.width)] = p[FlatIndex(h2, w, ss.width)]

\* C9: for every height and width, H # W included, the grid entry used for the
\* flattened position h * W + w has one component determined by the row h alone
\* and the other determined by the column w alone, so that two positions of one
\* row (or of one column) share a coordinate.
C9_GridAligned ==
    ss.pc \in {"ready", "called"} =>
        \/ RowOnly(ss.pos_x) /\ ColumnOnly(ss.pos_y)
        \/ RowOnly(ss.pos_y) /\ ColumnOnly(ss.pos_x)

=============================================================================
